---- MODULE Spec2Model ----
(***************************************************************************)
(* suscan: the message queue (analyzer/mq.c) and the channel inspector     *)
(* engine (inspector lifecycle, control handler, worker callback).         *)
(***************************************************************************)
EXTENDS Integers, Sequences, FiniteSets, TLC

(* ------------------------------ bounds -------------------------------- *)
\* message headers the allocator can hand out at once (heap size)
MaxNodes == 3
\* writes (payloads) issued to the queue in one run with a single reader
MaxWrites == 3
\* writes (payloads) issued to the queue in one run with concurrent readers
MaxConcWrites == 2
\* inspector objects constructed in one run
MaxInsp == 2
\* requests handed to the control handler in one run
MaxReqs == 3
\* sample batches written by the worker callbacks in one run
MaxBatches == 1
\* samples handed to one call of suscan_inspector_feed_bulk
MaxCount == 3
\* samples without a symbol that are counted since the last symbol
MaxGap == 5

(* ----------------------------- constants ------------------------------ *)
\* the null pointer
NULL == 0

NodeIds == 1..MaxNodes
\* message types: 0, which suscan_mq_read and suscan_mq_poll pass on, and one
\* other (the queue only compares types for equality)
Types == {0, 1}
\* two reader threads; the single-reader runs use reader 1 alone
Readers == {1, 2}

VARIABLES
  mq,           \* struct suscan_mq: [head, tail]
  msg_next,     \* struct suscan_msg.next, per header
  msg_type,     \* struct suscan_msg.type, per header
  msg_private,  \* struct suscan_msg.private, per header
  allocated,    \* headers handed out by suscan_mq_alloc_msg and not yet returned
  rd,           \* per reader thread: where it is in suscan_mq_read_msg_internal
  written,      \* history: the writes, in the order their critical sections ran
  rlog,         \* history: the payloads returned to readers, in completion order
  last,         \* the read / poll call that completed last: its arguments, what
                \* it returned, and the queue before and after it
  wrote_after_read,  \* history: a write was made after a read had returned
  inspector_list,  \* analyzer->inspector_list: inspector or NULL per handle
  insp,         \* the suscan_inspector_t objects
  made,         \* number of inspector objects constructed so far
  wk,           \* per inspector: its worker task and where its callback is
  ana,          \* the analyzer thread inside suscan_analyzer_parse_inspector_msg
  nreq,         \* requests the control handler has returned from
  nbatch,       \* sample batches written so far
  lastreq,      \* history: the request handled last and what became of it
  opened,       \* history: handles a client got in an OPEN response
  close_seen,   \* history: handles a CLOSE request has been handled for
  closed_ok,    \* history: handles a client got a CLOSE response for
  lastset,      \* history: the PARAMS request accepted last, until another
                \* request for its handle is handled
  fb            \* the symbol sampler of one inspector, and history: the call
                \* of suscan_inspector_feed_bulk made last on it

mqvars == <<mq, msg_next, msg_type, msg_private, allocated, rd, written, rlog,
            last>>
anavars == <<inspector_list, insp, made, wk, ana, nreq, nbatch, lastreq,
             opened, close_seen, closed_ok, lastset>>
vars == <<mqvars, wrote_after_read, anavars, fb>>

(* ------------------------- list primitives ---------------------------- *)
\* The queue operators work on a record [head, tail, next]: the two fields
\* of struct suscan_mq and the next link of every header.

MqRec == [head |-> mq.head, tail |-> mq.tail, next |-> msg_next]

\* suscan_mq_push_front without "if (mq->tail == NULL) mq->tail = msg"
Mutant_push_front_keeps_tail(q, msg) ==
  [head |-> msg,
   tail |-> q.tail,
   next |-> [q.next EXCEPT ![msg] = q.head]]

suscan_mq_push_front(q, msg) ==
  [head |-> msg,
   tail |-> IF q.tail = NULL THEN msg ELSE q.tail,
   next |-> [q.next EXCEPT ![msg] = q.head]]

suscan_mq_push(q, msg) ==
  [head |-> IF q.head = NULL THEN msg ELSE q.head,
   tail |-> msg,
   next |-> IF q.tail # NULL THEN [q.next EXCEPT ![q.tail] = msg] ELSE q.next]

\* suscan_mq_pop without "mq->head = msg->next": the header is returned and
\* stays at the head
Mutant_pop_keeps_head(q) ==
  IF q.head = NULL
    THEN [q |-> q, msg |-> NULL]
    ELSE [q |-> q, msg |-> q.head]

\* pop: [q |-> the queue afterwards, msg |-> the header taken or NULL]
suscan_mq_pop(q) ==
  IF q.head = NULL
    THEN [q |-> q, msg |-> NULL]
    ELSE LET msg == q.head
             h   == q.next[msg]
         IN [q |-> [head |-> h,
                    tail |-> IF h = NULL THEN NULL ELSE q.tail,
                    next |-> [q.next EXCEPT ![msg] = NULL]],
             msg |-> msg]

\* the while loop of suscan_mq_pop_w_type: <<this, prev>> when it ends
RECURSIVE FindWType(_, _, _, _, _)
FindWType(q, ty, this, prev, type) ==
  IF this = NULL THEN <<NULL, prev>>
  ELSE IF ty[this] = type THEN <<this, prev>>
  ELSE FindWType(q, ty, q.next[this], this, type)

\* suscan_mq_pop_w_type that unlinks as suscan_mq_pop does, "mq->head =
\* this->next", also when the header found is not the head
Mutant_pop_w_type_cuts_head(q, ty, type) ==
  LET f    == FindWType(q, ty, q.head, NULL, type)
      this == f[1]
      prev == f[2]
  IN IF this = NULL
       THEN [q |-> q, msg |-> NULL]
       ELSE [q |-> [head |-> q.next[this],
                    tail |-> IF this = q.tail THEN prev ELSE q.tail,
                    next |-> [q.next EXCEPT ![this] = NULL]],
             msg |-> this]

suscan_mq_pop_w_type(q, ty, type) ==
  LET f    == FindWType(q, ty, q.head, NULL, type)
      this == f[1]
      prev == f[2]
  IN IF this = NULL
       THEN [q |-> q, msg |-> NULL]
       ELSE LET n1 == IF prev = NULL THEN q.next
                      ELSE [q.next EXCEPT ![prev] = q.next[this]]
            IN [q |-> [head |-> IF prev = NULL THEN q.next[this] ELSE q.head,
                       tail |-> IF this = q.tail THEN prev ELSE q.tail,
                       next |-> [n1 EXCEPT ![this] = NULL]],
                msg |-> this]

\* the headers reachable from head, in list order (at most MaxNodes of them)
RECURSIVE Walk(_, _, _)
Walk(q, n, fuel) ==
  IF n = NULL \/ fuel = 0 THEN <<>> ELSE <<n>> \o Walk(q, q.next[n], fuel - 1)

Content == Walk(MqRec, mq.head, MaxNodes)

\* a queue as its readers would see it: <<payload, type>> from head to tail
QueuedOf(q, priv, ty) ==
  LET c == Walk(q, q.head, MaxNodes)
  IN [i \in 1..Len(c) |-> <<priv[c[i]], ty[c[i]]>>]

Queued == QueuedOf(MqRec, msg_private, msg_type)

(* --------------------------- message headers --------------------------- *)
\* suscan_mq_alloc_msg (malloc): a header not in use; which one is immaterial,
\* the lowest free one is taken
suscan_mq_alloc_msg == CHOOSE n \in NodeIds \ allocated :
                         \A m \in NodeIds \ allocated : n <= m

\* pthread_cond_broadcast: every thread blocked in pthread_cond_wait is made
\* runnable
suscan_mq_notify(readers) ==
  [r \in Readers |-> IF readers[r].pc = "waiting"
                       THEN [readers[r] EXCEPT !.pc = "ready"]
                       ELSE readers[r]]

IdleReader == [pc |-> "idle", with_type |-> FALSE, type |-> 0,
               ptype |-> FALSE, api |-> "none"]

\* suscan_mq_write_msg / suscan_mq_write_msg_urgent on a header made by
\* suscan_msg_new(type, private): enter, push, notify, leave
suscan_mq_write_msg(type, private, urgent) ==
  LET msg == suscan_mq_alloc_msg
      q0  == [MqRec EXCEPT !.next[msg] = NULL]
      q1  == IF urgent THEN suscan_mq_push_front(q0, msg)
                       ELSE suscan_mq_push(q0, msg)
  IN /\ mq' = [head |-> q1.head, tail |-> q1.tail]
     /\ msg_next' = q1.next
     /\ msg_type' = [msg_type EXCEPT ![msg] = type]
     /\ msg_private' = [msg_private EXCEPT ![msg] = private]
     /\ allocated' = allocated \cup {msg}
     /\ rd' = suscan_mq_notify(rd)
     /\ written' = Append(written,
                          [private |-> private, type |-> type, urgent |-> urgent])
     /\ UNCHANGED <<rlog, last>>

\* suscan_mq_write / suscan_mq_write_urgent: ok is the return value; FALSE
\* when suscan_msg_new cannot allocate a header, and then nothing changes
suscan_mq_write_internal(type, private, urgent, ok) ==
  IF ok
    THEN /\ NodeIds \ allocated # {}
         /\ suscan_mq_write_msg(type, private, urgent)
    ELSE UNCHANGED mqvars

suscan_mq_write(type, private, ok) ==
  suscan_mq_write_internal(type, private, FALSE, ok)

suscan_mq_write_urgent(type, private, ok) ==
  suscan_mq_write_internal(type, private, TRUE, ok)

(* ------------------------------ readers -------------------------------- *)
\* one pass of the loop body of suscan_mq_read_msg_internal, or the single
\* attempt of suscan_mq_poll_msg_internal
PopAttempt(with_type, type) ==
  IF with_type THEN suscan_mq_pop_w_type(MqRec, msg_type, type)
               ELSE suscan_mq_pop(MqRec)

\* the caller got header res.msg: suscan_mq_read_internal / _poll_internal
\* copy private (and the type when ptype is not null) and destroy the header
TakeMsg(r, res, api, ptype, type) ==
  LET msg == res.msg
  IN /\ mq' = [head |-> res.q.head, tail |-> res.q.tail]
     /\ msg_next' = res.q.next
     /\ msg_type' = [msg_type EXCEPT ![msg] = 0]
     /\ msg_private' = [msg_private EXCEPT ![msg] = NULL]
     /\ allocated' = allocated \ {msg}
     /\ rlog' = Append(rlog, msg_private[msg])
     /\ last' = [api |-> api, ptype |-> ptype, type |-> type, ok |-> TRUE,
                 private |-> msg_private[msg],
                 rtype |-> IF ptype THEN msg_type[msg] ELSE -1,
                 before |-> Queued,
                 after |-> QueuedOf(res.q, msg_private, msg_type)]
     /\ rd' = [rd EXCEPT ![r] = IdleReader]
     /\ UNCHANGED written

\* suscan_mq_read_internal(mq, ptype, type), first pass: ptype is TRUE when
\* the type out-parameter is not null
suscan_mq_read_internal(r, api, ptype, type) ==
  /\ rd[r].pc = "idle"
  /\ LET with_type == ~ptype
         res == PopAttempt(with_type, type)
     IN IF res.msg = NULL
          THEN /\ rd' = [rd EXCEPT ![r] = [pc |-> "waiting", with_type |-> with_type,
                                           type |-> type, ptype |-> ptype, api |-> api]]
               /\ UNCHANGED <<mq, msg_next, msg_type, msg_private, allocated,
                              written, rlog, last>>
          ELSE TakeMsg(r, res, api, ptype, type)

suscan_mq_read(r, ptype) == suscan_mq_read_internal(r, "read", ptype, 0)

suscan_mq_read_w_type(r, type) == suscan_mq_read_internal(r, "read_w_type", FALSE, type)

\* pthread_cond_wait returns without a broadcast (spurious wakeup)
SpuriousWakeup(r) ==
  /\ rd[r].pc = "waiting"
  /\ rd' = [rd EXCEPT ![r].pc = "ready"]
  /\ UNCHANGED <<mq, msg_next, msg_type, msg_private, allocated, written, rlog,
                 last>>

\* the woken reader has the mutex again and runs the loop condition once more
ReadRetry(r) ==
  /\ rd[r].pc = "ready"
  /\ LET res == PopAttempt(rd[r].with_type, rd[r].type)
     IN IF res.msg = NULL
          THEN /\ rd' = [rd EXCEPT ![r].pc = "waiting"]
               /\ UNCHANGED <<mq, msg_next, msg_type, msg_private, allocated,
                              written, rlog, last>>
          ELSE TakeMsg(r, res, rd[r].api, rd[r].ptype, rd[r].type)

\* suscan_mq_poll_internal(mq, ptype, private, type)
suscan_mq_poll_internal(r, api, ptype, type) ==
  /\ rd[r].pc = "idle"
  /\ LET with_type == ~ptype
         res == PopAttempt(with_type, type)
     IN IF res.msg = NULL
          THEN /\ last' = [api |-> api, ptype |-> ptype, type |-> type,
                           ok |-> FALSE, private |-> NULL, rtype |-> -1,
                           before |-> Queued, after |-> Queued]
               /\ UNCHANGED <<mq, msg_next, msg_type, msg_private, allocated,
                              written, rd, rlog>>
          ELSE TakeMsg(r, res, api, ptype, type)

suscan_mq_poll(r, ptype) == suscan_mq_poll_internal(r, "poll", ptype, 0)

suscan_mq_poll_w_type(r, type) == suscan_mq_poll_internal(r, "poll_w_type", FALSE, type)

NoCall == [api |-> "none", ptype |-> FALSE, type |-> 0, ok |-> FALSE,
           private |-> NULL, rtype |-> -1, before |-> <<>>, after |-> <<>>]

\* suscan_mq_init
suscan_mq_init ==
  /\ mq = [head |-> NULL, tail |-> NULL]
  /\ msg_next = [n \in NodeIds |-> NULL]
  /\ msg_type = [n \in NodeIds |-> 0]
  /\ msg_private = [n \in NodeIds |-> NULL]
  /\ allocated = {}
  /\ rd = [r \in Readers |-> IdleReader]
  /\ written = <<>>
  /\ rlog = <<>>
  /\ last = NoCall

(* ------------------------- the inspector engine ------------------------ *)
\* enum suscan_async_state, in declaration order
SUSCAN_ASYNC_STATE_CREATED == 0
SUSCAN_ASYNC_STATE_RUNNING == 1
SUSCAN_ASYNC_STATE_HALTING == 2
SUSCAN_ASYNC_STATE_HALTED == 3

\* message types of the analyzer's output queue
SUSCAN_ANALYZER_MESSAGE_TYPE_INSPECTOR == 0
SUSCAN_ANALYZER_MESSAGE_TYPE_SAMPLES == 1

InspIds == 1..MaxInsp

\* the analyzer: the sample rate of its source's channel detector
analyzer == [samp_rate |-> 8]

\* struct suscan_inspector_params as calloc leaves it, and a setting a
\* client may send
ZeroParams == [inspector_id |-> 0, fc_ctrl |-> 0, fc_off |-> 0, fc_phi |-> 0,
               baud |-> 0, sym_phase |-> 0]
ParamVals == {ZeroParams,
              [inspector_id |-> 5, fc_ctrl |-> 1, fc_off |-> 4, fc_phi |-> 1,
               baud |-> 2, sym_phase |-> 1]}

\* SU_ABS2NORM_FREQ and the reciprocal of SU_ABS2NORM_BAUD, on values the
\* sample rate divides exactly
SU_ABS2NORM_FREQ(fs, freq) == (2 * freq) \div fs

InvNormBaud(fs, baud) == fs \div baud

\* suscan_inspector_new: the object after a construction in which every
\* allocation succeeded; phase is kept as its argument (1 = exp(i 0))
suscan_inspector_new ==
  [state |-> SUSCAN_ASYNC_STATE_CREATED, params |-> ZeroParams,
   sym_period |-> 0, lo_freq |-> 0, phase |-> 0,
   consumer |-> FALSE, live |-> TRUE, destroyed |-> 0]

\* suscan_inspector_destroy: the object is freed; destroyed counts the calls
suscan_inspector_destroy(objs, i) ==
  [objs EXCEPT ![i].live = FALSE, ![i].destroyed = @ + 1]

\* a slot of memory no inspector was built in yet
NoInspector == [suscan_inspector_new EXCEPT !.live = FALSE]

inspector_count == Len(inspector_list)

\* suscan_analyzer_get_inspector with every state accepted
Mutant_get_inspector_any_state(handle) ==
  IF handle < 0 \/ handle >= inspector_count
    THEN NULL
    ELSE inspector_list[handle + 1]

\* suscan_analyzer_get_inspector that turns down halted inspectors only
Mutant_get_inspector_rejects_halted(handle) ==
  IF handle < 0 \/ handle >= inspector_count
    THEN NULL
    ELSE LET brinsp == inspector_list[handle + 1]
         IN IF brinsp # NULL /\ insp[brinsp].state = SUSCAN_ASYNC_STATE_HALTED
              THEN NULL
              ELSE brinsp

suscan_analyzer_get_inspector(handle) ==
  IF handle < 0 \/ handle >= inspector_count
    THEN NULL
    ELSE LET brinsp == inspector_list[handle + 1]
         IN IF brinsp # NULL /\ insp[brinsp].state # SUSCAN_ASYNC_STATE_RUNNING
              THEN NULL
              ELSE brinsp

\* suscan_analyzer_dispose_inspector_handle that gives the last slot of the
\* table back instead of leaving it empty
Mutant_dispose_shrinks(list, handle) ==
  IF handle < 0 \/ handle >= Len(list)
    THEN list
    ELSE IF list[handle + 1] = NULL
           THEN list
           ELSE IF handle + 1 = Len(list)
                  THEN SubSeq(list, 1, handle)
                  ELSE [list EXCEPT ![handle + 1] = NULL]

\* suscan_analyzer_dispose_inspector_handle: the table afterwards
suscan_analyzer_dispose_inspector_handle(list, handle) ==
  IF handle < 0 \/ handle >= Len(list)
    THEN list
    ELSE IF list[handle + 1] = NULL
           THEN list
           ELSE [list EXCEPT ![handle + 1] = NULL]

\* PTR_LIST_APPEND_CHECK: the table grows by one slot; the new index, or -1
\* (and the table as it was) when the table cannot grow
PTR_LIST_APPEND_CHECK(list, i, append_ok) ==
  IF append_ok
    THEN [hnd |-> Len(list), list |-> Append(list, i)]
    ELSE [hnd |-> -1, list |-> list]

\* suscan_analyzer_register_inspector that returns -1 on a failed push
\* without disposing of the handle
Mutant_register_keeps_slot(objs, brinsp, append_ok, push_ok) ==
  IF objs[brinsp].state # SUSCAN_ASYNC_STATE_CREATED
    THEN [hnd |-> 0, list |-> inspector_list, objs |-> objs, wk |-> wk]
    ELSE LET app == PTR_LIST_APPEND_CHECK(inspector_list, brinsp, append_ok)
             run == [objs EXCEPT ![brinsp].state = SUSCAN_ASYNC_STATE_RUNNING]
         IN IF app.hnd = -1
              THEN [hnd |-> -1, list |-> inspector_list, objs |-> objs, wk |-> wk]
              ELSE IF ~push_ok
                THEN [hnd |-> -1, list |-> app.list, objs |-> run, wk |-> wk]
                ELSE [hnd |-> app.hnd, list |-> app.list, objs |-> run,
                      wk |-> [wk EXCEPT ![brinsp] = "queued"]]

\* suscan_analyzer_register_inspector(analyzer, brinsp): the handle returned
\* and the table, the objects and the worker tasks afterwards; push_ok says
\* whether suscan_analyzer_push_task succeeds
suscan_analyzer_register_inspector(objs, brinsp, append_ok, push_ok) ==
  IF objs[brinsp].state # SUSCAN_ASYNC_STATE_CREATED
    THEN [hnd |-> 0, list |-> inspector_list, objs |-> objs, wk |-> wk]
    ELSE LET app == PTR_LIST_APPEND_CHECK(inspector_list, brinsp, append_ok)
             run == [objs EXCEPT ![brinsp].state = SUSCAN_ASYNC_STATE_RUNNING]
         IN IF app.hnd = -1
              THEN [hnd |-> -1, list |-> inspector_list, objs |-> objs, wk |-> wk]
              ELSE IF ~push_ok
                THEN [hnd |-> -1,
                      list |-> suscan_analyzer_dispose_inspector_handle(
                                 app.list, app.hnd),
                      objs |-> run, wk |-> wk]
                ELSE [hnd |-> app.hnd, list |-> app.list, objs |-> run,
                      wk |-> [wk EXCEPT ![brinsp] = "queued"]]

\* struct suscan_analyzer_inspector_msg as a client sends it
Request(kind, handle, params) ==
  [kind |-> kind, handle |-> handle, params |-> params, req_id |-> nreq + 1,
   inspector_id |-> 0, status |-> "none"]

NoMsg == [kind |-> "none", handle |-> -1, params |-> ZeroParams, req_id |-> 0,
          inspector_id |-> 0, status |-> "none"]

AnaIdle == [pc |-> "idle", msg |-> NoMsg, insp |-> NULL]

\* no PARAMS request stands
NoSet == [handle |-> -1, params |-> ZeroParams]

\* the inspector in slot h of table list, NULL when there is none
SlotOf(list, h) == IF h < 0 \/ h >= Len(list) THEN NULL ELSE list[h + 1]

\* what is left of inspector object i: nothing to tell for NULL
ObjectOf(objs, i) ==
  IF i = NULL THEN [live |-> FALSE, state |-> -1]
              ELSE [live |-> objs[i].live, state |-> objs[i].state]

NoReq == [req |-> NoMsg, resp |-> NoMsg, ret |-> FALSE, tried |-> FALSE,
          nresp |-> 0, was_open |-> FALSE, was_closed |-> FALSE, seen |-> -1,
          reused |-> FALSE, setp |-> NoSet, pre_list |-> <<>>,
          post_list |-> <<>>, kept |-> TRUE, after |-> ObjectOf(<<>>, NULL),
          built |-> NULL, changed |-> {}]

\* the state of the inspector in the slot of handle h, -1 when there is none
StateAt(h) ==
  IF h < 0 \/ h >= inspector_count
    THEN -1
    ELSE IF inspector_list[h + 1] = NULL
           THEN -1
           ELSE insp[inspector_list[h + 1]].state

\* messages of type INSPECTOR written to the output queue so far
NInspector(w) ==
  Cardinality({j \in 1..Len(w) :
                 w[j].type = SUSCAN_ANALYZER_MESSAGE_TYPE_INSPECTOR})

\* label done: the handler returns ret for request req, which it has turned
\* into resp; tried says whether it came as far as the write, seen is the
\* state the handle lookup found; pre_list and post_list are the table
\* before and after the handler's last step, kept says whether that step
\* left every inspector object as it was and changed which of them it did
\* not, after is the object of the request's slot when the handler
\* returns, built the object the handler constructed
Returned(req, resp, ret, tried) ==
  /\ lastreq' = [req |-> req, resp |-> resp, ret |-> ret, tried |-> tried,
                 nresp |-> NInspector(written') - NInspector(written),
                 was_open |-> req.handle \in opened \ close_seen,
                 was_closed |-> req.handle \in closed_ok,
                 seen |-> IF ana.pc = "idle" THEN StateAt(req.handle)
                                             ELSE SUSCAN_ASYNC_STATE_RUNNING,
                 reused |-> ret /\ resp.kind = "OPEN" /\ resp.handle \in opened,
                 setp |-> lastset,
                 pre_list |-> inspector_list, post_list |-> inspector_list',
                 kept |-> insp' = insp,
                 after |-> ObjectOf(insp', SlotOf(inspector_list, req.handle)),
                 built |-> IF made' > made THEN made' ELSE NULL,
                 changed |-> {i \in InspIds : insp'[i] # insp[i]}]
  /\ lastset' = IF ret /\ req.kind = "PARAMS" /\ resp.kind = "PARAMS"
                  THEN [handle |-> req.handle, params |-> req.params]
                  ELSE IF req.handle = lastset.handle THEN NoSet ELSE lastset
  /\ nreq' = nreq + 1
  /\ opened' = IF ret /\ resp.kind = "OPEN" THEN opened \cup {resp.handle}
                                            ELSE opened
  /\ close_seen' = IF req.kind = "CLOSE" THEN close_seen \cup {req.handle}
                                         ELSE close_seen
  /\ closed_ok' = IF ret /\ resp.kind = "CLOSE" THEN closed_ok \cup {req.handle}
                                                ELSE closed_ok
  /\ ana' = AnaIdle

\* whether a suscan_mq_write to mq_out succeeds: the allocator fails when
\* it has no header left
HeaderLeft == NodeIds \ allocated # {}

\* the end of the handler: resp goes to mq_out as a message of type
\* INSPECTOR; the handler returns whether the write succeeded
WriteResponse(req, resp) ==
  /\ suscan_mq_write(SUSCAN_ANALYZER_MESSAGE_TYPE_INSPECTOR,
                     Len(written) + 1, HeaderLeft)
  /\ Returned(req, resp, HeaderLeft, TRUE)

\* the handler leaves through "goto done" before the write
NoResponse(req, resp) ==
  /\ UNCHANGED mqvars
  /\ Returned(req, resp, FALSE, FALSE)

Accepting == ana.pc = "idle" /\ nreq < MaxReqs

\* what an OPEN can meet: the calloc of suscan_inspector_new fails, one of
\* its later allocations fails, the table cannot grow,
\* suscan_analyzer_push_task fails, or none of them fails
OpenOutcomes == {"new_fail", "build_fail", "append_fail", "push_fail", "ok"}

\* case SUSCAN_ANALYZER_INSPECTOR_MSGKIND_OPEN
HandleOpen(outcome) ==
  /\ Accepting
  /\ LET req == Request("OPEN", -1, ZeroParams)
     IN IF outcome = "new_fail"
          THEN /\ UNCHANGED <<inspector_list, insp, made, wk, nbatch>>
               /\ NoResponse(req, req)
          ELSE /\ made < MaxInsp
               /\ LET new == made + 1
                      objs == [insp EXCEPT ![new] = suscan_inspector_new]
                      reg == suscan_analyzer_register_inspector(
                               objs, new, outcome # "append_fail",
                               outcome # "push_fail")
                  IN IF outcome = "build_fail"
                       THEN \* label fail of suscan_inspector_new
                            /\ made' = new
                            /\ insp' = suscan_inspector_destroy(objs, new)
                            /\ UNCHANGED <<inspector_list, wk, nbatch>>
                            /\ NoResponse(req, req)
                       ELSE /\ made' = new
                            /\ inspector_list' = reg.list
                            /\ wk' = reg.wk
                            /\ UNCHANGED nbatch
                            /\ IF reg.hnd = -1
                                 THEN /\ insp' = suscan_inspector_destroy(
                                                   reg.objs, new)
                                      /\ NoResponse(req, req)
                                 ELSE /\ insp' = reg.objs
                                      /\ WriteResponse(
                                           req, [req EXCEPT !.handle = reg.hnd])

\* cases GET_INFO and GET_PARAMS
HandleGet(kind, h) ==
  /\ Accepting
  /\ UNCHANGED <<inspector_list, insp, made, wk, nbatch>>
  /\ LET req == Request(kind, h, ZeroParams)
         found == suscan_analyzer_get_inspector(h)
         resp == IF found = NULL
                   THEN [req EXCEPT !.kind = "WRONG_HANDLE"]
                   ELSE [req EXCEPT
                           !.kind = IF kind = "GET_INFO" THEN "INFO" ELSE "PARAMS",
                           !.params = IF kind = "GET_INFO"
                                        THEN @ ELSE insp[found].params,
                           !.inspector_id = insp[found].params.inspector_id]
     IN WriteResponse(req, resp)

\* case SUSCAN_ANALYZER_INSPECTOR_MSGKIND_PARAMS
HandleSetParams(h, p) ==
  /\ Accepting
  /\ UNCHANGED <<inspector_list, made, wk, nbatch>>
  /\ LET req == Request("PARAMS", h, p)
         found == suscan_analyzer_get_inspector(h)
         fs == analyzer.samp_rate
     IN IF found = NULL
          THEN /\ UNCHANGED insp
               /\ WriteResponse(req, [req EXCEPT !.kind = "WRONG_HANDLE"])
          ELSE /\ insp' = [insp EXCEPT
                             ![found].params = p,
                             ![found].sym_period =
                                IF p.baud > 0 THEN InvNormBaud(fs, p.baud) ELSE 0,
                             ![found].lo_freq = SU_ABS2NORM_FREQ(fs, p.fc_off),
                             ![found].phase = p.fc_phi]
               /\ WriteResponse(
                    req, [req EXCEPT !.inspector_id = p.inspector_id])

\* case SUSCAN_ANALYZER_INSPECTOR_MSGKIND_CLOSE, up to the handle lookup
\* (the state is read in suscan_analyzer_get_inspector)
CloseLookup(h) ==
  /\ Accepting
  /\ UNCHANGED <<inspector_list, insp, made, wk, nbatch>>
  /\ LET req == Request("CLOSE", h, ZeroParams)
         found == suscan_analyzer_get_inspector(h)
     IN IF found = NULL
          THEN WriteResponse(req, [req EXCEPT !.kind = "WRONG_HANDLE"])
          ELSE /\ ana' = [pc |-> "close_check", insp |-> found,
                          msg |-> [req EXCEPT !.inspector_id =
                                     insp[found].params.inspector_id]]
               /\ UNCHANGED <<mqvars, nreq, lastreq, opened, close_seen,
                              closed_ok, lastset>>

\* the state is read again: a halted inspector is disposed of and destroyed
\* and the response written
CloseCheck ==
  /\ ana.pc = "close_check"
  /\ UNCHANGED <<made, wk, nbatch>>
  /\ IF insp[ana.insp].state = SUSCAN_ASYNC_STATE_HALTED
       THEN /\ inspector_list' = suscan_analyzer_dispose_inspector_handle(
                                   inspector_list, ana.msg.handle)
            /\ insp' = suscan_inspector_destroy(insp, ana.insp)
            /\ WriteResponse([ana.msg EXCEPT !.inspector_id = 0], ana.msg)
       ELSE /\ ana' = [ana EXCEPT !.pc = "close_mark"]
            /\ UNCHANGED <<mqvars, inspector_list, insp, nreq, lastreq, opened,
                           close_seen, closed_ok, lastset>>

\* the inspector is marked as halting and the response written
CloseMark ==
  /\ ana.pc = "close_mark"
  /\ insp' = [insp EXCEPT ![ana.insp].state = SUSCAN_ASYNC_STATE_HALTING]
  /\ UNCHANGED <<inspector_list, made, wk, nbatch>>
  /\ WriteResponse([ana.msg EXCEPT !.inspector_id = 0], ana.msg)

\* the default case with the message cleared before it is marked
Mutant_HandleOther_clears_msg(h) ==
  /\ Accepting
  /\ UNCHANGED <<inspector_list, insp, made, wk, nbatch>>
  /\ LET req == Request("OTHER", h, ZeroParams)
     IN WriteResponse(req, [NoMsg EXCEPT !.status = "OTHER",
                                         !.kind = "WRONG_KIND"])

\* default: a kind the handler does not know
HandleOther(h) ==
  /\ Accepting
  /\ UNCHANGED <<inspector_list, insp, made, wk, nbatch>>
  /\ LET req == Request("OTHER", h, ZeroParams)
     IN WriteResponse(req, [req EXCEPT !.status = "OTHER",
                                       !.kind = "WRONG_KIND"])

\* what a run of the callback can meet after the state check: no samples,
\* a failing feed, a failing batch allocation, samples fed without a symbol,
\* samples fed and a batch to write
Outcomes == {"no_samples", "feed_fail", "batch_fail", "fed", "fed_batch"}

\* suscan_inspector_wk_cb from its start to label done: restart is decided
WkRun(i, outcome) ==
  /\ wk[i] = "queued"
  /\ insp' = [insp EXCEPT ![i].consumer = TRUE]
  /\ IF insp[i].state = SUSCAN_ASYNC_STATE_HALTING
       THEN /\ wk' = [wk EXCEPT ![i] = "done"]
            /\ UNCHANGED <<mqvars, nbatch>>
       ELSE IF outcome = "fed_batch"
         THEN /\ nbatch < MaxBatches
              /\ suscan_mq_write(SUSCAN_ANALYZER_MESSAGE_TYPE_SAMPLES,
                                 Len(written) + 1, HeaderLeft)
              /\ nbatch' = nbatch + 1
              /\ wk' = [wk EXCEPT ![i] = IF HeaderLeft THEN "queued"
                                                       ELSE "done"]
         ELSE /\ wk' = [wk EXCEPT ![i] = IF outcome = "fed" THEN "queued"
                                                             ELSE "done"]
              /\ UNCHANGED <<mqvars, nbatch>>
  /\ UNCHANGED <<inspector_list, made, ana, nreq, lastreq, opened, close_seen,
                 closed_ok, lastset>>

\* label done with restart false: insp->state = SUSCAN_ASYNC_STATE_HALTED
WkHalt(i) ==
  /\ wk[i] = "done"
  /\ insp' = [insp EXCEPT ![i].state = SUSCAN_ASYNC_STATE_HALTED]
  /\ wk' = [wk EXCEPT ![i] = "halted"]
  /\ UNCHANGED <<mqvars, inspector_list, made, ana, nreq, nbatch, lastreq,
                 opened, close_seen, closed_ok, lastset>>

\* suscan_consumer_remove_task(insp->task_state.consumer) and the return:
\* the worker drops the task
WkRemove(i) ==
  /\ wk[i] = "halted"
  /\ wk' = [wk EXCEPT ![i] = "gone"]
  /\ UNCHANGED <<mqvars, inspector_list, insp, made, ana, nreq, nbatch,
                 lastreq, opened, close_seen, closed_ok, lastset>>

suscan_analyzer_init ==
  /\ inspector_list = <<>>
  /\ insp = [i \in InspIds |-> NoInspector]
  /\ made = 0
  /\ wk = [i \in InspIds |-> "none"]
  /\ ana = AnaIdle
  /\ nreq = 0
  /\ nbatch = 0
  /\ lastreq = NoReq
  /\ opened = {}
  /\ close_seen = {}
  /\ closed_ok = {}
  /\ lastset = NoSet

\* handles a client may put in a request: none, every slot, one past the end
Handles == -1..inspector_count

(* -------------------------- the symbol sampler ------------------------- *)
\* SUFLOAT values are kept in quarters: FixOne stands for 1.0
FixOne == 4

\* 1. / SU_ABS2NORM_BAUD(fs, baud), in quarters of a sample
SymPeriod(fs, baud) == (FixOne * fs) \div baud

\* no call of suscan_inspector_feed_bulk made yet
NoFeed == [count |-> -1, ret |-> -1, sym_period |-> 0, nsym |-> 0,
           fired_at |-> 0, processed |-> 0]

\* history of the sampler since its parameters were set: at_zero says
\* whether sym_phase was 0 then, gap is the number of samples since the
\* last symbol (or since then), dist the number of samples from the symbol
\* before the last to the last one, -1 when there were not yet two
NoSymbols(at_zero) == [at_zero |-> at_zero, gap |-> 0, dist |-> -1,
                       fired |-> FALSE]

\* no run of suscan_inspector_wk_cb yet: pc is where the callback is, avail
\* the samples the consumer had for it, got the samples left, advanced what
\* the task-state cursor was advanced by, batch the samples in batch_msg
\* (has_batch: batch_msg is not null); history: fired is the samples on
\* which a call of feed_bulk fired, fed and got_before the value the last
\* call of feed_bulk returned and the count it was given, ret what the
\* callback returned, nsamples and sent the SAMPLES messages it wrote
NoCb == [pc |-> "idle", avail |-> 0, got |-> 0, advanced |-> 0,
         batch |-> <<>>, has_batch |-> FALSE, fired |-> <<>>, fed |-> -1,
         got_before |-> 0, ret |-> "none", nsamples |-> 0, sent |-> <<>>]

\* the sampler fields of an inspector as calloc leaves them; the inspector
\* has been registered and its task pushed; closing: a CLOSE request has
\* found it not halted and has not marked it yet
NewSampler == [params_sym_phase |-> 0, sym_period |-> 0, sym_phase |-> 0,
               sym_new_sample |-> FALSE, call |-> NoFeed,
               hist |-> NoSymbols(TRUE),
               state |-> SUSCAN_ASYNC_STATE_RUNNING, closing |-> FALSE,
               cb |-> NoCb]

\* one pass of the loop body of suscan_inspector_feed_bulk on sample number
\* i (from 1); the difference sym_phase - samp_phase_samples is kept in
\* sixteenths, and (int) SU_FLOOR of it is 0 iff it is in [0, 1)
FeedSample(s, i) ==
  LET counted == [s EXCEPT !.call.processed = @ + 1,
                           !.hist.gap = IF @ < MaxGap THEN @ + 1 ELSE @]
  IN IF s.sym_period >= FixOne
       THEN LET p1 == s.sym_phase + FixOne
                p2 == IF p1 >= s.sym_period THEN p1 - s.sym_period ELSE p1
                d  == FixOne * p2 - s.params_sym_phase * s.sym_period
                fire == (d \div (FixOne * FixOne)) = 0
            IN [counted EXCEPT
                  !.sym_phase = p2,
                  !.sym_new_sample = fire,
                  !.call.nsym = IF fire THEN @ + 1 ELSE @,
                  !.call.fired_at = IF fire /\ @ = 0 THEN i ELSE @,
                  !.hist = IF fire
                             THEN [@ EXCEPT
                                     !.gap = 0, !.fired = TRUE,
                                     !.dist = IF s.hist.fired
                                                THEN counted.hist.gap ELSE -1]
                             ELSE @]
       ELSE counted

\* the for loop with its condition dropped to "i < count"
RECURSIVE Mutant_feed_loop_runs_on(_, _, _, _)
Mutant_feed_loop_runs_on(s, i, count, fail_at) ==
  IF ~(i < count)
    THEN [s EXCEPT !.call.ret = i]
    ELSE IF fail_at = i + 1
           THEN [s EXCEPT !.call.ret = -1]
           ELSE Mutant_feed_loop_runs_on(FeedSample(s, i + 1), i + 1, count,
                                         fail_at)

\* the for loop from index i on; fail_at is the number of the sample on
\* which su_channel_detector_feed fails, 0 when it never does
RECURSIVE FeedLoop(_, _, _, _)
FeedLoop(s, i, count, fail_at) ==
  IF ~(i < count /\ ~s.sym_new_sample)
    THEN [s EXCEPT !.call.ret = i]
    ELSE IF fail_at = i + 1
           THEN [s EXCEPT !.call.ret = -1]
           ELSE FeedLoop(FeedSample(s, i + 1), i + 1, count, fail_at)

\* suscan_inspector_feed_bulk without "insp->sym_new_sample = SU_FALSE"
Mutant_feed_bulk_keeps_flag(s, count, fail_at) ==
  FeedLoop([s EXCEPT !.call = [NoFeed EXCEPT !.count = count,
                                             !.sym_period = s.sym_period]],
           0, count, fail_at)

\* suscan_inspector_feed_bulk(insp, x, count): the sampler afterwards, the
\* return value in call.ret
suscan_inspector_feed_bulk(s, count, fail_at) ==
  FeedLoop([s EXCEPT !.sym_new_sample = FALSE,
                     !.call = [NoFeed EXCEPT !.count = count,
                                             !.sym_period = s.sym_period]],
           0, count, fail_at)

Init ==
  /\ suscan_mq_init
  /\ wrote_after_read = FALSE
  /\ suscan_analyzer_init
  /\ fb = NewSampler

(* --------------------- the queue under its clients --------------------- *)
\* writers pass payloads 1, 2, ...: each write a payload of its own; track
\* says whether the run keeps wrote_after_read
Write(type, ok, max, track) ==
  /\ Len(written) < max
  /\ suscan_mq_write(type, Len(written) + 1, ok)
  /\ wrote_after_read' = (wrote_after_read \/ (track /\ rlog # <<>>))
  /\ UNCHANGED <<anavars, fb>>

WriteUrgent(type, ok, max, track) ==
  /\ Len(written) < max
  /\ suscan_mq_write_urgent(type, Len(written) + 1, ok)
  /\ wrote_after_read' = (wrote_after_read \/ (track /\ rlog # <<>>))
  /\ UNCHANGED <<anavars, fb>>

Read(r, ptype) ==
  suscan_mq_read(r, ptype) /\ UNCHANGED <<wrote_after_read, anavars, fb>>

ReadWType(r, type) ==
  suscan_mq_read_w_type(r, type) /\ UNCHANGED <<wrote_after_read, anavars, fb>>

Poll(r, ptype) ==
  suscan_mq_poll(r, ptype) /\ UNCHANGED <<wrote_after_read, anavars, fb>>

PollWType(r, type) ==
  suscan_mq_poll_w_type(r, type) /\ UNCHANGED <<wrote_after_read, anavars, fb>>

Wakeup(r) ==
  SpuriousWakeup(r) /\ UNCHANGED <<wrote_after_read, anavars, fb>>

Retry(r) ==
  ReadRetry(r) /\ UNCHANGED <<wrote_after_read, anavars, fb>>

\* writer threads and two reader threads, every call of the API
NextMQ ==
  \/ \E t \in Types, ok \in BOOLEAN : Write(t, ok, MaxConcWrites, FALSE)
  \/ \E t \in Types, ok \in BOOLEAN : WriteUrgent(t, ok, MaxConcWrites, FALSE)
  \/ \E r \in Readers, p \in BOOLEAN : Read(r, p)
  \/ \E r \in Readers, t \in Types : ReadWType(r, t)
  \/ \E r \in Readers, p \in BOOLEAN : Poll(r, p)
  \/ \E r \in Readers, t \in Types : PollWType(r, t)
  \/ \E r \in Readers : Wakeup(r)
  \/ \E r \in Readers : Retry(r)

SpecMQ == Init /\ [][NextMQ]_vars

\* a thread made runnable is eventually scheduled and re-takes the mutex
SpecMQFair == SpecMQ /\ \A r \in Readers : WF_vars(Retry(r))

\* writer threads and one reader thread that makes only typed calls
NextTyped ==
  \/ \E t \in Types, ok \in BOOLEAN : Write(t, ok, MaxWrites, FALSE)
  \/ \E t \in Types, ok \in BOOLEAN : WriteUrgent(t, ok, MaxWrites, FALSE)
  \/ \E t \in Types : ReadWType(1, t)
  \/ \E t \in Types : PollWType(1, t)
  \/ Wakeup(1)
  \/ Retry(1)

SpecTyped == Init /\ [][NextTyped]_vars

\* writer threads and one reader thread that makes only untyped calls, with
\* or without a type out-parameter
NextOrder ==
  \/ \E t \in Types, ok \in BOOLEAN : Write(t, ok, MaxWrites, TRUE)
  \/ \E t \in Types, ok \in BOOLEAN : WriteUrgent(t, ok, MaxWrites, TRUE)
  \/ \E p \in BOOLEAN : Read(1, p)
  \/ \E p \in BOOLEAN : Poll(1, p)
  \/ Wakeup(1)
  \/ Retry(1)

SpecOrder == Init /\ [][NextOrder]_vars

\* writer threads and one reader thread that makes every call of the API
NextList ==
  \/ \E t \in Types, ok \in BOOLEAN : Write(t, ok, MaxWrites, FALSE)
  \/ \E t \in Types, ok \in BOOLEAN : WriteUrgent(t, ok, MaxWrites, FALSE)
  \/ \E p \in BOOLEAN : Read(1, p)
  \/ \E t \in Types : ReadWType(1, t)
  \/ \E p \in BOOLEAN : Poll(1, p)
  \/ \E t \in Types : PollWType(1, t)
  \/ Wakeup(1)
  \/ Retry(1)

SpecList == Init /\ [][NextList]_vars

(* ------------------- the engine under its clients --------------------- *)
\* what the engine's handlers and callbacks leave alone
aux == <<wrote_after_read, fb>>

\* the analyzer thread serving its clients' requests, and the worker
\* threads running the inspectors' callbacks
Next ==
  \/ \E o \in OpenOutcomes : HandleOpen(o) /\ UNCHANGED aux
  \/ \E k \in {"GET_INFO", "GET_PARAMS"}, h \in Handles :
        HandleGet(k, h) /\ UNCHANGED aux
  \/ \E h \in Handles, p \in ParamVals :
        HandleSetParams(h, p) /\ UNCHANGED aux
  \/ \E h \in Handles : CloseLookup(h) /\ UNCHANGED aux
  \/ CloseCheck /\ UNCHANGED aux
  \/ CloseMark /\ UNCHANGED aux
  \/ \E h \in Handles : HandleOther(h) /\ UNCHANGED aux
  \/ \E i \in InspIds, o \in Outcomes :
        WkRun(i, o) /\ UNCHANGED aux
  \/ \E i \in InspIds : WkHalt(i) /\ UNCHANGED aux
  \/ \E i \in InspIds : WkRemove(i) /\ UNCHANGED aux

Spec == Init /\ [][Next]_vars

\* the analyzer thread goes on inside a handler it has entered, and the
\* worker runs the callbacks of the tasks it holds
SpecFair ==
  /\ Spec
  /\ WF_vars(CloseCheck /\ UNCHANGED aux)
  /\ WF_vars(CloseMark /\ UNCHANGED aux)
  /\ \A i \in InspIds :
        /\ WF_vars(\E o \in Outcomes :
                     WkRun(i, o) /\ UNCHANGED aux)
        /\ WF_vars(WkHalt(i) /\ UNCHANGED aux)
        /\ WF_vars(WkRemove(i) /\ UNCHANGED aux)

(* ------------------- the sampler under its callers -------------------- *)
\* baud rates a client may set: none, and rates that give symbol periods of
\* 4, 2, 1 and 1/2 samples
Bauds == {0, 2, 4, 8, 16}

\* params.sym_phase values a client may set: 0, 1/4, 1/2 and 3/4
SymPhases == 0..(FixOne - 1)

\* case PARAMS on the inspector: params and sym_period are set
FbSetParams(baud, sym_phase) ==
  /\ fb.state = SUSCAN_ASYNC_STATE_RUNNING
  /\ fb' = [fb EXCEPT
              !.hist = NoSymbols(fb.sym_phase = 0),
              !.params_sym_phase = sym_phase,
              !.sym_period = IF baud > 0
                               THEN SymPeriod(analyzer.samp_rate, baud) ELSE 0]
  /\ UNCHANGED <<mqvars, wrote_after_read, anavars>>

\* the worker callback calls suscan_inspector_feed_bulk on count samples
FeedBulk(count, fail_at) ==
  /\ fb' = suscan_inspector_feed_bulk(fb, count, fail_at)
  /\ UNCHANGED <<mqvars, wrote_after_read, anavars>>

NextFeed ==
  \/ \E b \in Bauds, p \in SymPhases : FbSetParams(b, p)
  \/ \E c \in 0..MaxCount, f \in 0..MaxCount : FeedBulk(c, f)

SpecFeed == Init /\ [][NextFeed]_vars

(* ------------------- the callback under the worker -------------------- *)
\* messages of type SAMPLES written to the output queue so far
NSamples(w) ==
  Cardinality({j \in 1..Len(w) :
                 w[j].type = SUSCAN_ANALYZER_MESSAGE_TYPE_SAMPLES})

\* label done of suscan_inspector_wk_cb with restart false: the inspector
\* is halted, the task removed and batch_msg destroyed
CbDrop(s) ==
  [s EXCEPT !.state = SUSCAN_ASYNC_STATE_HALTED,
            !.cb.pc = "idle", !.cb.ret = "false",
            !.cb.has_batch = FALSE, !.cb.batch = <<>>]

\* suscan_inspector_wk_cb up to the while loop: ok and got are what
\* suscan_consumer_task_state_assert_samples gives
CbStart(ok, got) ==
  /\ fb.cb.pc = "idle"
  \* a callback that returned false is not run again
  /\ fb.cb.ret # "false"
  /\ fb' = IF fb.state = SUSCAN_ASYNC_STATE_HALTING \/ ~ok
             THEN CbDrop([fb EXCEPT !.cb = NoCb])
             ELSE [fb EXCEPT !.cb = [NoCb EXCEPT !.pc = "loop", !.avail = got,
                                                 !.got = got]]
  /\ UNCHANGED <<mqvars, wrote_after_read, anavars>>

\* what the allocations of one pass of the loop can meet
Allocs == {"ok", "new_fail", "append_fail"}

\* one pass of the while loop; a sample is told by its place in the buffer
CbIter(fail_at, alloc) ==
  /\ fb.cb.pc = "loop" /\ fb.cb.got > 0
  /\ LET fed_bulk == suscan_inspector_feed_bulk(fb, fb.cb.got, fail_at)
         fed == fed_bulk.call.ret
         pos == fb.cb.advanced
         fire == fed_bulk.sym_new_sample
         \* the records of the last direct call are not the callback's
         r == [fed_bulk EXCEPT !.call = fb.call, !.hist = fb.hist]
         r1 == [r EXCEPT !.cb.fed = fed, !.cb.got_before = fb.cb.got,
                         !.cb.fired = IF fire THEN Append(@, pos + fed) ELSE @]
     IN fb' = IF fed < 0
                THEN CbDrop(r)
                ELSE IF fire /\ ~fb.cb.has_batch /\ alloc = "new_fail"
                  THEN CbDrop(r1)
                  ELSE IF fire /\ alloc = "append_fail"
                    THEN CbDrop(r1)
                    ELSE [r1 EXCEPT
                            !.cb.has_batch = @ \/ fire,
                            !.cb.batch = IF fire
                                           THEN Append(@, pos + fed_bulk.call.fired_at)
                                           ELSE @,
                            !.cb.advanced = @ + fed,
                            !.cb.got = @ - fed]
  /\ UNCHANGED <<mqvars, wrote_after_read, anavars>>

\* the end of the callback with the batch written although the write failed
Mutant_CbFinish_restarts_anyway ==
  /\ fb.cb.pc = "loop" /\ fb.cb.got = 0
  /\ IF fb.cb.has_batch
       THEN /\ suscan_mq_write(SUSCAN_ANALYZER_MESSAGE_TYPE_SAMPLES,
                               Len(written) + 1, HeaderLeft)
            /\ fb' = [fb EXCEPT
                        !.cb.pc = "idle", !.cb.ret = "true",
                        !.cb.has_batch = FALSE,
                        !.cb.nsamples = NSamples(written') - NSamples(written),
                        !.cb.sent = IF HeaderLeft THEN fb.cb.batch ELSE <<>>]
       ELSE /\ UNCHANGED mqvars
            /\ fb' = [fb EXCEPT !.cb.pc = "idle", !.cb.ret = "true"]
  /\ UNCHANGED <<wrote_after_read, anavars>>

\* the loop has ended: the batch is written and the callback returns
CbFinish ==
  /\ fb.cb.pc = "loop" /\ fb.cb.got = 0
  /\ IF fb.cb.has_batch
       THEN /\ suscan_mq_write(SUSCAN_ANALYZER_MESSAGE_TYPE_SAMPLES,
                               Len(written) + 1, HeaderLeft)
            /\ fb' = IF HeaderLeft
                       THEN [fb EXCEPT
                               !.cb.pc = "idle", !.cb.ret = "true",
                               !.cb.has_batch = FALSE,
                               !.cb.nsamples =
                                  NSamples(written') - NSamples(written),
                               !.cb.sent = fb.cb.batch]
                       ELSE CbDrop(fb)
       ELSE /\ UNCHANGED mqvars
            /\ fb' = [fb EXCEPT !.cb.pc = "idle", !.cb.ret = "true"]
  /\ UNCHANGED <<wrote_after_read, anavars>>

\* case CLOSE on the inspector, up to the test of its state: the handle is
\* served while the state is running, so the inspector is not halted
FbCloseCheck ==
  /\ ~fb.closing
  /\ fb.state = SUSCAN_ASYNC_STATE_RUNNING
  /\ fb' = [fb EXCEPT !.closing = TRUE]
  /\ UNCHANGED <<mqvars, wrote_after_read, anavars>>

\* case CLOSE on the inspector, the else branch: it is marked as halting
FbCloseMark ==
  /\ fb.closing
  /\ fb' = [fb EXCEPT !.state = SUSCAN_ASYNC_STATE_HALTING,
                      !.closing = FALSE]
  /\ UNCHANGED <<mqvars, wrote_after_read, anavars>>

\* the worker runs the callback of one inspector while the analyzer thread
\* serves PARAMS and CLOSE requests for it
NextCb ==
  \/ \E b \in Bauds, p \in SymPhases : FbSetParams(b, p)
  \/ FbCloseCheck
  \/ FbCloseMark
  \/ \E ok \in BOOLEAN, got \in 0..MaxCount : CbStart(ok, got)
  \/ \E f \in 0..MaxCount, a \in Allocs : CbIter(f, a)
  \/ CbFinish

SpecCb == Init /\ [][NextCb]_vars

(* ======================= claims about the queue ======================== *)
WrittenPayloads == {written[j].private : j \in 1..Len(written)}

RemoveAt(c, k) == [i \in 1..(Len(c) - 1) |-> IF i < k THEN c[i] ELSE c[i + 1]]

RECURSIVE Reverse(_)
Reverse(c) == IF c = <<>> THEN <<>> ELSE Reverse(Tail(c)) \o <<Head(c)>>

IsPrefix(a, b) == /\ Len(a) <= Len(b)
                  /\ \A i \in 1..Len(a) : a[i] = b[i]

\* C2: every payload a read or poll returned was passed to an earlier write,
\* and no payload is returned twice (to the same or to different readers).
C2_NoFabricationNoDuplication ==
  /\ \A i \in 1..Len(rlog) : rlog[i] \in WrittenPayloads
  /\ \A i, j \in 1..Len(rlog) : rlog[i] = rlog[j] => i = j
  /\ last.ok => last.private \in WrittenPayloads

\* C2 witness: an urgent and a plain write were made, every payload written
\* has been returned, and the other reader is blocked in a read
C2_Witness ==
  /\ Len(rlog) = MaxConcWrites
  /\ \E i, j \in 1..Len(written) : written[i].urgent /\ ~written[j].urgent
  /\ \E r \in Readers : rd[r].pc = "waiting"

\* reader r is blocked in pthread_cond_wait inside a call of api
Waiting(r, api) == rd[r].pc = "waiting" /\ rd[r].api = api

\* C3: with only non-urgent writes, a single reader that uses the untyped
\* read or poll gets the payloads in the order of the writes (SpecOrder: one
\* reader, untyped calls only).
C3_ReadOrderIsWriteOrder ==
  (\A j \in 1..Len(written) : ~written[j].urgent)
  => IsPrefix(rlog, [j \in 1..Len(written) |-> written[j].private])

\* the order in which C4 expects the payloads: the urgent ones, latest first,
\* then the others in write order
UrgentFirst ==
  LET U == SelectSeq(written, LAMBDA w : w.urgent)
      N == SelectSeq(written, LAMBDA w : ~w.urgent)
  IN [i \in 1..Len(written) |-> (Reverse(U) \o N)[i].private]

\* C4: after writes and urgent writes with no read in between, successive
\* untyped reads return the urgent payloads, latest first, then the others
\* in write order (SpecOrder: one reader, untyped calls only).
C4_UrgentLifoThenFifo ==
  ~wrote_after_read => IsPrefix(rlog, UrgentFirst)

Wants(r, n) == rd[r].api = "read" \/ msg_type[n] = rd[r].type

MatchQueued(r) == \E i \in 1..Len(Content) : Wants(r, Content[i])

\* C6: a blocked reader returns only with a message that passes its filter,
\* and a blocked reader for which a matching message is queued eventually
\* returns, unless another reader takes the message.
C6_NoLostWakeup ==
  /\ [][\A r \in Readers :
          (rd[r].pc # "idle" /\ rd'[r].pc = "idle") =>
             \E i \in 1..Len(Content) :
                /\ Wants(r, Content[i])
                /\ rlog' = Append(rlog, msg_private[Content[i]])
      ]_vars
  /\ \A r \in Readers :
       (rd[r].pc # "idle" /\ MatchQueued(r))
          ~> (rd[r].pc = "idle" \/ ~MatchQueued(r))

\* C7: an untyped read or poll takes the message at the head whatever its
\* type, with and without a type out-parameter (so it fails or waits only
\* on an empty queue); the out-parameter decides only whether the type is
\* reported.
C7_UntypedTakesHead ==
  /\ last.api \in {"read", "poll"} =>
       IF last.before = <<>>
         THEN ~last.ok
         ELSE /\ last.ok /\ last.private = last.before[1][1]
              /\ last.after = Tail(last.before)
              /\ last.rtype = IF last.ptype THEN last.before[1][2] ELSE -1
  /\ \A r \in Readers : Waiting(r, "read") => Queued = <<>>

\* the headers met from the head on, one step further than there are headers
Chain == Walk(MqRec, mq.head, MaxNodes + 1)

\* C19: between calls of the queue (every call runs under the mutex), head
\* is null iff tail is null; a queue that is not empty has tail.next null
\* and its tail is the last header met from the head on, no header is met
\* twice, and the headers met are exactly the ones written and not yet read.
C19_ListWellFormed ==
  /\ (mq.head = NULL) <=> (mq.tail = NULL)
  /\ mq.head = NULL => allocated = {}
  /\ mq.head # NULL =>
        /\ msg_next[mq.tail] = NULL
        /\ Chain[Len(Chain)] = mq.tail
        /\ \A i, j \in 1..Len(Chain) : Chain[i] = Chain[j] => i = j
        /\ {Chain[i] : i \in 1..Len(Chain)} = allocated

\* C19 witness: of three queued messages, the first of them written urgent,
\* a typed poll took the one at the tail, and the other two are queued
C19_Witness ==
  /\ Len(written) = 3 /\ written[3].urgent
  /\ last.api = "poll_w_type" /\ last.ok
  /\ Len(last.before) = 3 /\ last.private = last.before[3][1]
  /\ Len(Content) = 2 /\ mq.tail = Content[2]

(* ======================= claims about the engine ======================= *)
\* C1: under every interleaving of the analyzer thread and the worker
\* callbacks no inspector's state ever decreases in the order
\* Created < Running < Halting < Halted; a state the worker has set to
\* Halted is not overwritten with Halting by a CLOSE in progress.
C1_StateNeverDecreases ==
  [][\A i \in InspIds : insp'[i].state >= insp[i].state]_vars

HandleKinds == {"CLOSE", "GET_INFO", "GET_PARAMS", "PARAMS"}

\* C8: every request the control handler has returned from, an OPEN whose
\* construction or registration failed included, put exactly one message of
\* type INSPECTOR on the output queue (a response whose write itself was
\* refused by the queue is left aside).
C8_OneResponsePerRequest ==
  lastreq.req.kind # "none" =>
     \/ lastreq.nresp = 1
     \/ lastreq.tried /\ ~lastreq.ret

\* C9: a handle a client got from OPEN and for which no CLOSE has been
\* handled yet is valid whatever the worker callbacks have done: GET_INFO,
\* GET_PARAMS and PARAMS on it are not turned into WRONG_HANDLE, and a CLOSE
\* on it is turned into a CLOSE response.
C9_HandleValidUntilClose ==
  lastreq.was_open =>
     /\ lastreq.req.kind \in {"GET_INFO", "GET_PARAMS", "PARAMS"} =>
           lastreq.resp.kind # "WRONG_HANDLE"
     /\ lastreq.req.kind = "CLOSE" => lastreq.resp.kind = "CLOSE"

\* C10: once a client got a CLOSE response for handle h, every later CLOSE,
\* GET_INFO, GET_PARAMS and PARAMS request for h is answered WRONG_HANDLE,
\* whether the inspector is still halting or already halted.
C10_ClosedHandleIsWrong ==
  (lastreq.was_closed /\ lastreq.req.kind \in HandleKinds) =>
     lastreq.resp.kind = "WRONG_HANDLE" /\ (lastreq.ret <=> lastreq.nresp = 1)

\* C10 witness: a request on a handle closed before, whose inspector the
\* worker had halted by then, was answered WRONG_HANDLE
C10_Witness ==
  /\ lastreq.was_closed /\ lastreq.req.kind = "GET_PARAMS"
  /\ lastreq.resp.kind = "WRONG_HANDLE" /\ lastreq.nresp = 1
  /\ lastreq.seen = SUSCAN_ASYNC_STATE_HALTED

C12_CloseReclaimsHalted ==
  lastreq.req.kind = "CLOSE" =>
     /\ lastreq.seen = SUSCAN_ASYNC_STATE_HALTED =>
           /\ lastreq.resp.kind = "CLOSE"
           /\ SlotOf(lastreq.post_list, lastreq.req.handle) = NULL
           /\ ~lastreq.after.live
     /\ (lastreq.seen \in {SUSCAN_ASYNC_STATE_RUNNING,
                            SUSCAN_ASYNC_STATE_HALTING}
          /\ lastreq.after.live) =>
           /\ lastreq.post_list = lastreq.pre_list
           /\ lastreq.after.state = SUSCAN_ASYNC_STATE_HALTING

\* C13: a successful OPEN returns a handle no earlier OPEN returned, the
\* table never gets shorter, and a slot once emptied stays empty.
C13_HandlesNeverReused ==
  /\ ~lastreq.reused
  /\ Len(lastreq.post_list) >= Len(lastreq.pre_list)
  /\ \A k \in 1..Len(lastreq.pre_list) :
        lastreq.pre_list[k] = NULL => lastreq.post_list[k] = NULL

\* C13 witness: handle 0 was given out by an OPEN and its slot emptied by a
\* CLOSE, and the next OPEN got handle 1
C13_Witness ==
  /\ lastreq.req.kind = "OPEN" /\ lastreq.ret
  /\ 0 \in opened /\ 0 \in closed_ok
  /\ lastreq.pre_list = <<NULL>>
  /\ lastreq.resp.handle = 1

\* C14: a GET_PARAMS for handle h that follows an accepted PARAMS(h, p),
\* with worker callbacks and requests for other handles in between, is
\* answered PARAMS with params equal to p and inspector_id p.inspector_id.
C14_GetParamsAfterSetParams ==
  (lastreq.req.kind = "GET_PARAMS" /\ lastreq.setp.handle >= 0
     /\ lastreq.setp.handle = lastreq.req.handle) =>
     /\ lastreq.resp.kind = "PARAMS"
     /\ lastreq.resp.params = lastreq.setp.params
     /\ lastreq.resp.inspector_id = lastreq.setp.params.inspector_id

\* C15: the message the handler writes carries the req_id of the request,
\* whatever the kind of the request and whatever became of it.
C15_ReqIdCopiedBack ==
  lastreq.tried => lastreq.resp.req_id = lastreq.req.req_id

\* C15 witness: the second request, one of a kind the handler does not
\* know, was answered WRONG_KIND under its req_id
C15_Witness ==
  /\ lastreq.req.kind = "OTHER" /\ lastreq.req.req_id = 2
  /\ lastreq.resp.kind = "WRONG_KIND" /\ lastreq.resp.req_id = 2
  /\ lastreq.nresp = 1

\* C16: the analyzer destroys no inspector while a worker callback running
\* on it has not returned.
C16_NoDestroyDuringCallback ==
  \A i \in InspIds : wk[i] \in {"done", "halted"} => insp[i].live

\* the inspector a CLOSE response was written for
ClosedInspector(i) ==
  /\ lastreq.resp.kind = "CLOSE" /\ lastreq.ret
  /\ SlotOf(lastreq.pre_list, lastreq.req.handle) = i

\* C17: with worker callbacks dispatched fairly, an inspector whose CLOSE
\* was answered CLOSE is eventually Halted and stays Halted; it is never
\* left in another state with no worker task to move it on.
C17_ClosedEventuallyHalted ==
  /\ [](\A i \in InspIds :
          (ClosedInspector(i) /\ wk[i] = "gone") =>
             insp[i].state = SUSCAN_ASYNC_STATE_HALTED)
  /\ \A i \in InspIds :
        ClosedInspector(i) ~> [](insp[i].state = SUSCAN_ASYNC_STATE_HALTED)

\* C18: the engine destroys an inspector only while its state is Created
\* or Halted (a destroyed object keeps the state it was destroyed in).
C18_DestroyOnlyCreatedOrHalted ==
  \A i \in InspIds :
     (i <= made /\ ~insp[i].live) =>
        insp[i].state \in {SUSCAN_ASYNC_STATE_CREATED,
                           SUSCAN_ASYNC_STATE_HALTED}

(* ======================= claims about the sampler ====================== *)
\* C20: a call of feed_bulk that succeeds stops at the first sample on which
\* the sampler fires: sym_new_sample is true iff exactly one symbol was
\* emitted, and then the value returned is the number of the firing sample,
\* at most count, and no sample after it was processed; when the sampler
\* did not fire the value returned is count and sym_new_sample is false;
\* with count 0 the call returns 0 with sym_new_sample false, and with
\* sym_period < 1 it never fires and returns count.
C20_FeedBulkStopsAtFirstSymbol ==
  fb.call.ret >= 0 =>
     /\ fb.sym_new_sample <=> fb.call.nsym = 1
     /\ fb.sym_new_sample =>
           /\ fb.call.ret = fb.call.fired_at
           /\ fb.call.ret \in 1..fb.call.count
     /\ ~fb.sym_new_sample =>
           fb.call.ret = fb.call.count /\ fb.call.nsym = 0
     /\ fb.call.processed = fb.call.ret
     /\ fb.call.count = 0 => fb.call.ret = 0 /\ ~fb.sym_new_sample
     /\ fb.call.sym_period < FixOne =>
           ~fb.sym_new_sample /\ fb.call.ret = fb.call.count

\* C20 witness: with a period of 4 samples, a call on 3 samples fired on
\* the second of them and returned 2
C20_Witness ==
  /\ fb.call.sym_period = 4 * FixOne /\ fb.call.count = 3
  /\ fb.sym_new_sample /\ fb.call.ret = 2 /\ fb.call.fired_at = 2

\* C21: while the sampler is enabled (sym_period >= 1), sym_phase is in
\* [0, sym_period) after the samples a call of feed_bulk has processed,
\* whatever PARAMS requests changed the period between the calls.
C21_SymPhaseBelowPeriod ==
  (fb.call.processed > 0 /\ fb.call.sym_period >= FixOne) =>
     (0 <= fb.sym_phase /\ fb.sym_phase < fb.call.sym_period)

\* symbol period of the sampler in whole samples
WholePeriod == fb.sym_period \div FixOne

\* C25: with parameters set while the accumulator was 0 and left alone, and
\* a symbol period of P >= 1 whole samples, the sampler emits exactly one
\* symbol in every P samples in a row, whatever params.sym_phase in [0, 1)
\* is: no P samples in a row go without a symbol, and one symbol follows
\* the other after P samples.
C25_OneSymbolPerPeriod ==
  (fb.hist.at_zero /\ fb.sym_period >= FixOne
     /\ fb.sym_period = WholePeriod * FixOne) =>
     /\ fb.hist.gap < WholePeriod
     /\ fb.hist.dist # -1 => fb.hist.dist = WholePeriod

\* C23: an OPEN that fails in the construction of the inspector, in the
\* append to the table or in the push of the worker task returns failure,
\* has destroyed the inspector it built exactly once, leaves no slot of the
\* table referring to it (a slot it appended is empty), and leaves every
\* other inspector as it was.
C23_FailedOpenCleansUp ==
  (lastreq.req.kind = "OPEN" /\ ~lastreq.tried) =>
     /\ ~lastreq.ret
     /\ lastreq.changed \subseteq {lastreq.built}
     /\ \A k \in 1..Len(lastreq.post_list) :
           /\ lastreq.post_list[k] # NULL => lastreq.post_list[k] # lastreq.built
           /\ k > Len(lastreq.pre_list) => lastreq.post_list[k] = NULL
     /\ \A k \in 1..Len(lastreq.pre_list) :
           lastreq.post_list[k] = lastreq.pre_list[k]
     /\ lastreq.built # NULL =>
           /\ ~insp[lastreq.built].live
           /\ insp[lastreq.built].destroyed = 1

\* C23 witness: with a first inspector running under new settings, a second
\* OPEN failed in the push of its task; its slot is empty and its inspector
\* destroyed
C23_Witness ==
  /\ lastreq.req.kind = "OPEN" /\ ~lastreq.tried /\ ~lastreq.ret
  /\ lastreq.built = 2 /\ lastreq.post_list = <<1, NULL>>
  /\ insp[1].params # ZeroParams
  /\ insp[1].state = SUSCAN_ASYNC_STATE_RUNNING
  /\ insp[2].destroyed = 1

\* the step in which a run of the callback returns
CbReturns == fb'.cb # fb.cb /\ fb'.cb.pc = "idle"

\* C22: a callback that returned true advanced the cursor by the number
\* of samples the consumer had for it, wrote no SAMPLES message when no
\* call of feed_bulk fired, and otherwise one SAMPLES message holding, in
\* firing order, one sample for each call that fired; a callback that
\* returned false wrote no SAMPLES message and its return leaves the state
\* Halted.
C22_CallbackBatch ==
  /\ [](fb.cb.pc = "idle" =>
         /\ fb.cb.ret = "true" =>
               /\ fb.cb.advanced = fb.cb.avail
               /\ fb.cb.fired = <<>> => fb.cb.nsamples = 0
               /\ fb.cb.fired # <<>> =>
                     fb.cb.nsamples = 1 /\ fb.cb.sent = fb.cb.fired
         /\ fb.cb.ret = "false" => fb.cb.nsamples = 0)
  /\ [][(CbReturns /\ fb'.cb.ret = "false") =>
          (written' = written /\ fb'.state = SUSCAN_ASYNC_STATE_HALTED)]_vars

\* C22 witness: a callback on three samples in which two calls of
\* feed_bulk fired returned true and wrote the two samples in one message
C22_Witness ==
  /\ fb.cb.pc = "idle" /\ fb.cb.ret = "true"
  /\ fb.cb.avail = 3 /\ fb.cb.advanced = 3
  /\ Len(fb.cb.fired) = 2 /\ fb.cb.sent = fb.cb.fired
  /\ fb.cb.nsamples = 1

\* C24: a call of feed_bulk on count > 0 samples that does not fail returns
\* a value from 1 to count, so the count the loop of the callback has left
\* gets smaller with every pass, is never negative, and is 0 when the
\* callback returns true.
C24_FeedingLoopTerminates ==
  /\ fb.cb.fed # -1 => fb.cb.fed \in 1..fb.cb.got_before
  /\ fb.cb.got >= 0
  /\ (fb.cb.pc = "loop" /\ fb.cb.fed # -1) =>
        fb.cb.got = fb.cb.got_before - fb.cb.fed
  /\ (fb.cb.pc = "idle" /\ fb.cb.ret = "true") => fb.cb.got = 0

\* C24 witness: the loop is in its second pass or later: a call on three
\* samples returned 1 and two samples are left
C24_Witness ==
  /\ fb.cb.pc = "loop" /\ fb.cb.got_before = 3
  /\ fb.cb.fed = 1 /\ fb.cb.got = 2

====
